---- MODULE Spec2Model ----
(***************************************************************************)
(* Extraction pipeline of BillRights: one tab component (InvoiceTab or     *)
(* BusinessCardTab) with its file queue, its published result collection   *)
(* and the asynchronous processFiles run that drives every queued file     *)
(* through fileToGenerativePart -> generateContent -> JSON.parse ->        *)
(* normalization with defaults, or into a failure placeholder.             *)
(***************************************************************************)
EXTENDS Integers, Sequences, FiniteSets, TLC

\* Longest file queue a user selects at once.
MaxFiles == 3
\* Cap on the records a tab accumulates over all its runs.
MaxRecords == 3
\* Cap on the records of a tab in the runs checked for completion.
MaxLiveRecords == 2

Min(a, b) == IF a < b THEN a ELSE b

(***************************************************************************)
(* JavaScript values, tagged by type.  Numbers are integers: an amount is  *)
(* written in tenths, so 1505 stands for 150.5.                            *)
(***************************************************************************)
Undefined == [t |-> "undefined"]
Null == [t |-> "null"]
Str(s) == [t |-> "string", s |-> s]
Num(n) == [t |-> "number", n |-> n]
Arr(a) == [t |-> "array", a |-> a]
Obj(m) == [t |-> "object", m |-> m]

\* The fields of InvoiceData and BusinessCardData besides id and fileName.
InvoiceFields ==
  {"invoice_number", "invoice_date", "supplier_name", "supplier_tax_id",
   "total_amount", "currency", "tax_amount", "line_items"}
CardFields ==
  {"full_name", "company", "job_title", "email", "phone", "website", "address"}
Kinds == {"Invoice", "BusinessCard"}
DataFields(k) == IF k = "Invoice" THEN InvoiceFields ELSE CardFields

\* data.f : reading a property of null or undefined throws a TypeError; a
\* property an object lacks, or any property of a primitive or an array,
\* reads as undefined.
ThrowsOnRead(data) == data = Null \/ data = Undefined
Get(data, f) ==
  IF data.t = "object" /\ f \in DOMAIN data.m THEN data.m[f] ELSE Undefined

\* JavaScript truthiness of the values above ("" and 0 are falsy, arrays
\* and objects are truthy).
Falsy(v) == v \in {Undefined, Null, Str(""), Num(0)}

\* v || d
LogicalOr(v, d) == IF Falsy(v) THEN d ELSE v
\* v ?? d
NullishCoalesce(v, d) == IF v = Null \/ v = Undefined THEN d ELSE v

(***************************************************************************)
(* Record identifiers: Math.random().toString(36).substr(2, 9).           *)
(***************************************************************************)
\* Base-36 renderings of values Math.random() can return: 0 renders as "0",
\* a value in (0,1) as "0." followed by its digits.
RandomDraws == {"0", "0.4fzyo82mvyr"}

\* s.substr(start, length), start counted from 0.
Substr(s, start, length) == SubSeq(s, start + 1, Min(Len(s), start + length))

GenId(draw) == Substr(draw, 2, 9)

(***************************************************************************)
(* Normalization with defaults and the failure placeholders.               *)
(***************************************************************************)
InvoiceRecordUSD(id, fileName, data) ==
  [id |-> id, fileName |-> fileName,
   invoice_number |-> NullishCoalesce(Get(data, "invoice_number"), Null),
   invoice_date |-> NullishCoalesce(Get(data, "invoice_date"), Null),
   supplier_name |->
     NullishCoalesce(Get(data, "supplier_name"), Str("Unknown Supplier")),
   supplier_tax_id |-> NullishCoalesce(Get(data, "supplier_tax_id"), Null),
   total_amount |-> NullishCoalesce(Get(data, "total_amount"), Num(0)),
   currency |-> Str("USD"),
   tax_amount |-> NullishCoalesce(Get(data, "tax_amount"), Num(0)),
   line_items |-> NullishCoalesce(Get(data, "line_items"), Arr(<<>>))]

\* const invoice: InvoiceData = { id, fileName, invoice_number: ... }
InvoiceRecord(id, fileName, data) ==
  [id |-> id, fileName |-> fileName,
   invoice_number |-> NullishCoalesce(Get(data, "invoice_number"), Null),
   invoice_date |-> NullishCoalesce(Get(data, "invoice_date"), Null),
   supplier_name |->
     NullishCoalesce(Get(data, "supplier_name"), Str("Unknown Supplier")),
   supplier_tax_id |-> NullishCoalesce(Get(data, "supplier_tax_id"), Null),
   total_amount |-> NullishCoalesce(Get(data, "total_amount"), Num(0)),
   currency |-> NullishCoalesce(Get(data, "currency"), Str("USD")),
   tax_amount |-> NullishCoalesce(Get(data, "tax_amount"), Num(0)),
   line_items |-> NullishCoalesce(Get(data, "line_items"), Arr(<<>>))]

\* const card: BusinessCardData = { id, fileName, full_name: ... }
CardRecord(id, fileName, data) ==
  [id |-> id, fileName |-> fileName,
   full_name |-> NullishCoalesce(Get(data, "full_name"), Str("Unknown")),
   company |-> NullishCoalesce(Get(data, "company"), Null),
   job_title |-> NullishCoalesce(Get(data, "job_title"), Null),
   email |-> NullishCoalesce(Get(data, "email"), Null),
   phone |-> NullishCoalesce(Get(data, "phone"), Null),
   website |-> NullishCoalesce(Get(data, "website"), Null),
   address |-> NullishCoalesce(Get(data, "address"), Null)]

Normalize(k, id, fileName, data) ==
  IF k = "Invoice" THEN InvoiceRecord(id, fileName, data)
  ELSE CardRecord(id, fileName, data)

InvoicePlaceholderUSD(id, fileName) ==
  [id |-> id, fileName |-> fileName,
   invoice_number |-> Str("ERROR"), invoice_date |-> Null,
   supplier_name |-> Str("Extraction Failed"), supplier_tax_id |-> Null,
   total_amount |-> Num(0), currency |-> Str("USD"), tax_amount |-> Num(0),
   line_items |-> Arr(<<>>)]

\* The record pushed by the catch block of InvoiceTab.processFiles.
InvoicePlaceholder(id, fileName) ==
  [id |-> id, fileName |-> fileName,
   invoice_number |-> Str("ERROR"), invoice_date |-> Null,
   supplier_name |-> Str("Extraction Failed"), supplier_tax_id |-> Null,
   total_amount |-> Num(0), currency |-> Str(""), tax_amount |-> Num(0),
   line_items |-> Arr(<<>>)]

CardPlaceholderUnknown(id, fileName) ==
  [id |-> id, fileName |-> fileName,
   full_name |-> Str("Unknown"), company |-> Null, job_title |-> Null,
   email |-> Null, phone |-> Null, website |-> Null, address |-> Null]

\* The record pushed by the catch block of BusinessCardTab.processFiles.
CardPlaceholder(id, fileName) ==
  [id |-> id, fileName |-> fileName,
   full_name |-> Str("Extraction Failed"), company |-> Null,
   job_title |-> Null, email |-> Null, phone |-> Null, website |-> Null,
   address |-> Null]

Placeholder(k, id, fileName) ==
  IF k = "Invoice" THEN InvoicePlaceholder(id, fileName)
  ELSE CardPlaceholder(id, fileName)

(***************************************************************************)
(* The model capability and JSON.parse.                                    *)
(***************************************************************************)
\* Response texts the model returns for a document of kind k.
Texts(k) ==
  IF k = "Invoice"
  THEN {"Sorry, I cannot read this document.", "null", "{}",
        "{\"supplier_name\":\"Acme Co\",\"total_amount\":150.5}"}
  ELSE {"Sorry, I cannot read this document.", "null", "{}",
        "{\"full_name\":\"Jane Doe\"}"}

\* What generateContent does: it rejects, or it resolves with a response
\* whose text is undefined or empty ("notext"), or with a text.
ModelResponses(k) ==
  {[kind |-> "rejected"], [kind |-> "notext"]}
    \cup {[kind |-> "text", text |-> s] : s \in Texts(k)}

SyntaxError == [t |-> "SyntaxError"]

\* JSON.parse on the texts above.
JSONParse(text) ==
  CASE text = "null" -> Null
    [] text = "{}" -> Obj([f \in {} |-> Null])
    [] text = "{\"supplier_name\":\"Acme Co\",\"total_amount\":150.5}" ->
         Obj([supplier_name |-> Str("Acme Co"), total_amount |-> Num(1505)])
    [] text = "{\"full_name\":\"Jane Doe\"}" ->
         Obj([full_name |-> Str("Jane Doe")])
    [] OTHER -> SyntaxError

\* What happened to one file: its read failed, or it was read and the
\* model answered with response.
ReadFailed == [read |-> "error"]
ReadThen(response) == [read |-> "load", response |-> response]

\* extractInvoiceData / extractBusinessCardData: the parsed data, or the
\* error thrown.
ExtractData(out) ==
  IF out.read = "error" THEN [ok |-> FALSE, error |-> "FileReader error"]
  ELSE IF out.response.kind = "rejected"
  THEN [ok |-> FALSE, error |-> "generateContent rejected"]
  ELSE IF out.response.kind = "notext"
  THEN [ok |-> FALSE, error |-> "No data returned from model"]
  ELSE IF JSONParse(out.response.text) = SyntaxError
  THEN [ok |-> FALSE, error |-> "Failed to parse model response"]
  ELSE [ok |-> TRUE, data |-> JSONParse(out.response.text)]

\* The try block runs to its push: the extraction returned and reading
\* the fields of the data did not throw.
TrySucceeds(out) == ExtractData(out).ok /\ ~ThrowsOnRead(ExtractData(out).data)

(***************************************************************************)
(* The tab component and its processFiles run.                             *)
(***************************************************************************)
VARIABLES
  kind,         \* which tab this is: InvoiceTab or BusinessCardTab
  files,        \* useState: the pending file queue
  invoices,     \* useState: the published records (cards in BusinessCardTab)
  status,       \* useState: ExtractionStatus
  errorMsg,     \* useState: string | null
  pc,           \* where the processFiles run is suspended
  runFiles,     \* the files array the running processFiles closed over
  i,            \* position of the for-of loop in runFiles, from 1
  newInvoices,  \* the run's local array (newCards in BusinessCardTab)
  outcomes,     \* history: what happened to each file the run finished
  reads,        \* history: readAsDataURL calls of the run
  calls,        \* history: generateContent calls of the run
  parses,       \* history: JSON.parse calls of the run
  inflight,     \* history: files whose pipeline began and has not ended
  normIn,       \* input of the normalization under SpecNormalize
  normOut       \* its result

tabVars == <<kind, files, invoices, status, errorMsg>>
runVars ==
  <<pc, runFiles, i, newInvoices, outcomes, reads, calls, parses, inflight>>
normVars == <<normIn, normOut>>
vars == <<tabVars, runVars, normVars>>

\* The n-th file of a selection: names alternate, so a queue of three
\* files holds a repeated name.
FileNames == <<"scan1.pdf", "card.png">>
File(n) == [name |-> FileNames[((n + 1) % 2) + 1]]

\* The selections a user makes in the file dialog: never empty, since
\* UploadArea.handleFileChange ignores an empty FileList.
Selections ==
  {[j \in 1..n |-> File(j + s)] : n \in 1..MaxFiles, s \in {0, 1}}

EmptyQueueMessage(k) ==
  IF k = "Invoice" THEN "Please upload at least one invoice file first."
  ELSE "Please upload at least one business card."

NotStarted == [t |-> "none"]

InitTab ==
  /\ kind \in Kinds
  /\ files = <<>>
  /\ invoices = <<>>
  /\ status = "idle"
  /\ errorMsg = Null
  /\ pc = "idle"
  /\ runFiles = <<>>
  /\ i = 0
  /\ newInvoices = <<>>
  /\ outcomes = <<>>
  /\ reads = 0
  /\ calls = 0
  /\ parses = 0
  /\ inflight = {}

Init ==
  /\ InitTab
  /\ normIn = NotStarted
  /\ normOut = NotStarted

ControlsAlwaysEnabled == TRUE
\* The controls are disabled while status is 'processing': the upload
\* area ignores clicks and its input is disabled, and so is the button.
ControlsEnabled == status # "processing"

\* handleFilesSelected, reached from UploadArea.handleFileChange.
HandleFilesSelected(selectedFiles) ==
  /\ ControlsEnabled
  /\ Len(invoices) + Len(selectedFiles) <= MaxRecords
  /\ files' = selectedFiles
  /\ errorMsg' = Null
  /\ UNCHANGED <<kind, invoices, status, runVars, normVars>>

NeverEmpty(queue) == FALSE
\* if (files.length === 0)
EmptyQueue(queue) == Len(queue) = 0

StartedAll(n) == n..Len(runFiles)
\* The files whose pipeline begins when the for-of loop reaches file n:
\* the loop body awaits, so only that file.
StartedAt(n) == {n}

\* The loop reaches file n: extractInvoiceData calls fileToGenerativePart,
\* which calls reader.readAsDataURL and suspends.  readsBefore and
\* inflightBefore are the run's history up to here.
BeginFile(n, readsBefore, inflightBefore) ==
  /\ i' = n
  /\ pc' = "reading"
  /\ reads' = readsBefore + 1
  /\ inflight' = inflightBefore \cup StartedAt(n)

PublishReplaces(recs) ==
  /\ invoices' = recs
  /\ files' = <<>>
  /\ status' = "success"
  /\ pc' = "idle"

PublishKeepsStatus(recs) ==
  /\ invoices' = invoices \o recs
  /\ files' = <<>>
  /\ status' = status
  /\ pc' = "idle"

\* After the loop: setInvoices(prev => [...prev, ...newInvoices]);
\* setFiles([]); setStatus('success').
Publish(recs) ==
  /\ invoices' = invoices \o recs
  /\ files' = <<>>
  /\ status' = "success"
  /\ pc' = "idle"

\* File i is finished with the run's array now recs: the loop goes on to
\* the next file, or ends and the run publishes.
Continue(recs) ==
  /\ newInvoices' = recs
  /\ IF i < Len(runFiles)
     THEN /\ BeginFile(i + 1, reads, inflight \ {i})
          /\ UNCHANGED <<files, invoices, status>>
     ELSE /\ Publish(recs)
          /\ i' = i + 1
          /\ inflight' = inflight \ {i}
          /\ UNCHANGED reads

\* processFiles, up to its first suspension.
ProcessFiles ==
  /\ ControlsEnabled
  /\ pc = "idle"
  /\ IF EmptyQueue(files)
     THEN /\ errorMsg' = Str(EmptyQueueMessage(kind))
          /\ UNCHANGED <<kind, files, invoices, status, runVars, normVars>>
     ELSE /\ errorMsg' = Null
          /\ runFiles' = files
          /\ newInvoices' = <<>>
          /\ outcomes' = <<>>
          /\ calls' = 0
          /\ parses' = 0
          /\ IF Len(files) > 0
             THEN /\ status' = "processing"
                  /\ BeginFile(1, 0, {})
                  /\ UNCHANGED <<files, invoices>>
             ELSE /\ Publish(<<>>)
                  /\ i' = 1
                  /\ reads' = 0
                  /\ inflight' = {}
          /\ UNCHANGED <<kind, normVars>>

ReachesParseUnguarded(out) ==
  out.read = "load" /\ out.response.kind # "rejected"
\* extractInvoiceData reaches JSON.parse(text): the file was read, the
\* model call resolved and `if (!text) throw` did not fire.
ReachesParse(out) == out.read = "load" /\ out.response.kind = "text"

\* The JSON.parse calls of the run once a file has ended with out.
ParsesAfter(out) == IF ReachesParse(out) THEN parses + 1 ELSE parses

CatchSkip(recs, draw, file) == recs
\* catch (err) { newInvoices.push({ ...placeholder }) }
CatchPush(recs, draw, file) ==
  Append(recs, Placeholder(kind, GenId(draw), file.name))

\* try { ...; newInvoices.push(invoice) }
TryPush(recs, draw, file, data) ==
  Append(recs, Normalize(kind, GenId(draw), file.name, data))

CatchRethrow(draw, out) ==
  /\ pc' = "rejected"
  /\ outcomes' = Append(outcomes, out)
  /\ parses' = ParsesAfter(out)
  /\ inflight' = inflight \ {i}
  /\ UNCHANGED <<tabVars, runFiles, i, newInvoices, reads, calls, normVars>>
\* The catch block of the loop body: the error is logged, the placeholder
\* is pushed and the loop goes on.
CatchBlock(draw, out) ==
  /\ outcomes' = Append(outcomes, out)
  /\ parses' = ParsesAfter(out)
  /\ Continue(CatchPush(newInvoices, draw, runFiles[i]))
  /\ UNCHANGED <<kind, errorMsg, runFiles, calls, normVars>>

\* The rest of the try block once extractInvoiceData has returned data.
TryBlock(draw, out) ==
  /\ outcomes' = Append(outcomes, out)
  /\ parses' = ParsesAfter(out)
  /\ Continue(TryPush(newInvoices, draw, runFiles[i], ExtractData(out).data))
  /\ UNCHANGED <<kind, errorMsg, runFiles, calls, normVars>>

\* reader.onerror: fileToGenerativePart rejects.
ReadError(draw) ==
  /\ pc = "reading"
  /\ CatchBlock(draw, ReadFailed)

\* reader.onloadend: fileToGenerativePart resolves and extractInvoiceData
\* calls ai.models.generateContent.
ReadLoadEnd ==
  /\ pc = "reading"
  /\ pc' = "calling"
  /\ calls' = calls + 1
  /\ UNCHANGED <<tabVars, runFiles, i, newInvoices, outcomes, reads, parses,
                 inflight, normVars>>

\* generateContent settles with response: the rest of extractInvoiceData
\* and of the loop body.
ModelSettles(response, draw) ==
  /\ pc = "calling"
  /\ response \in ModelResponses(kind)
  /\ IF TrySucceeds(ReadThen(response))
     THEN TryBlock(draw, ReadThen(response))
     ELSE CatchBlock(draw, ReadThen(response))

Next ==
  \/ \E selectedFiles \in Selections : HandleFilesSelected(selectedFiles)
  \/ ProcessFiles
  \/ \E draw \in RandomDraws : ReadError(draw)
  \/ ReadLoadEnd
  \/ \E draw \in RandomDraws :
       \E response \in ModelResponses(kind) : ModelSettles(response, draw)

Spec == Init /\ [][Next]_vars

\* The FileReader settles the pending read.
ReadSettles == ReadLoadEnd \/ \E draw \in RandomDraws : ReadError(draw)

\* generateContent settles the pending call.
CallSettles ==
  \E draw \in RandomDraws :
    \E response \in ModelResponses(kind) : ModelSettles(response, draw)

\* The run under an environment that answers: every pending read and every
\* pending model call settles in the end.  Nothing obliges the user to
\* select files or to start a run.
\* The selections of the runs checked for completion: the tab accumulates
\* at most MaxLiveRecords records.
SelectsForLive ==
  \E selectedFiles \in Selections :
    /\ Len(invoices) + Len(selectedFiles) <= MaxLiveRecords
    /\ HandleFilesSelected(selectedFiles)

NextLive == SelectsForLive \/ ProcessFiles \/ ReadSettles \/ CallSettles

SpecLive ==
  Init /\ [][NextLive]_vars /\ WF_vars(ReadSettles) /\ WF_vars(CallSettles)

(***************************************************************************)
(* Normalization on its own: every combination of absent, null, empty and  *)
(* filled fields, and parsed values that are not objects.                  *)
(***************************************************************************)
Shapes == {"absent", "null", "empty", "full"}

LineItem == Obj([description |-> Str("Widget"), line_total |-> Num(1505)])

\* A value of the declared type of field f (src types: string, number,
\* LineItem[]): the empty one or a filled one.
Sample(f, shape) ==
  IF shape = "null" THEN Null
  ELSE IF f \in {"total_amount", "tax_amount"}
  THEN (IF shape = "empty" THEN Num(0) ELSE Num(1505))
  ELSE IF f = "line_items"
  THEN (IF shape = "empty" THEN Arr(<<>>) ELSE Arr(<<LineItem>>))
  ELSE IF shape = "empty" THEN Str("")
  ELSE IF f = "supplier_name" THEN Str("Acme Co")
  ELSE IF f = "full_name" THEN Str("Jane Doe")
  ELSE IF f = "currency" THEN Str("EUR")
  ELSE Str("x")

RawObject(h) ==
  Obj([f \in {g \in DOMAIN h : h[g] # "absent"} |-> Sample(f, h[f])])

NonObjects == {Null, Num(42), Str("ok"), Arr(<<>>)}

TypeError == [t |-> "TypeError"]

InitNormalize ==
  /\ InitTab
  /\ \/ \E h \in [DataFields(kind) -> Shapes] : normIn = RawObject(h)
     \/ normIn \in NonObjects
  /\ normOut = NotStarted

\* Lines 35-46 applied to normIn: the record is built.
NormalizeReturns(draw) ==
  /\ normOut = NotStarted
  /\ ~ThrowsOnRead(normIn)
  /\ normOut' = Normalize(kind, GenId(draw), File(1).name, normIn)
  /\ UNCHANGED <<tabVars, runVars, normIn>>

\* Lines 35-46 applied to normIn: reading data.invoice_number throws.
NormalizeThrows ==
  /\ normOut = NotStarted
  /\ ThrowsOnRead(normIn)
  /\ normOut' = TypeError
  /\ UNCHANGED <<tabVars, runVars, normIn>>

NextNormalize ==
  \/ \E draw \in RandomDraws : NormalizeReturns(draw)
  \/ NormalizeThrows

SpecNormalize == InitNormalize /\ [][NextNormalize]_vars

(***************************************************************************)
(* Properties.                                                             *)
(***************************************************************************)
\* A record without its identifier.
Content(rec) == [rec EXCEPT !.id = ""]

\* The try block threw before its push: a stage failed (read, model call,
\* parse), or reading the parsed data threw.
StageFailed(out) == ~ExtractData(out).ok

BearsFailureMarkers(rec) ==
  IF kind = "Invoice"
  THEN rec.invoice_number = Str("ERROR")
       /\ rec.supplier_name = Str("Extraction Failed")
  ELSE rec.full_name = Str("Extraction Failed")

RunCompleted == pc = "idle" /\ status = "success"

\* C1: a run yields exactly one record per submitted file, in submission
\* order: while the run is suspended on file i it holds the records of
\* files 1..i-1, and once it has completed it holds, and has published as
\* the tail of the collection, one record for each file, the j-th with the
\* j-th file's name.
C1_OneRecordPerFile ==
  /\ pc \in {"reading", "calling"} => Len(newInvoices) = i - 1
  /\ Len(newInvoices) <= Len(runFiles)
  /\ \A j \in 1..Len(newInvoices) : newInvoices[j].fileName = runFiles[j].name
  /\ RunCompleted =>
       /\ Len(newInvoices) = Len(runFiles)
       /\ Len(invoices) >= Len(runFiles)
       /\ SubSeq(invoices, Len(invoices) - Len(runFiles) + 1, Len(invoices))
            = newInvoices

C1_Witness ==
  /\ RunCompleted
  /\ Len(runFiles) = 3
  /\ Len(newInvoices) = 3
  /\ StageFailed(outcomes[1])
  /\ TrySucceeds(outcomes[2])
  /\ StageFailed(outcomes[3])

C2_Isolated ==
  \A j \in 1..Len(outcomes) :
    /\ j <= Len(newInvoices)
    /\ StageFailed(outcomes[j]) => BearsFailureMarkers(newInvoices[j])
    /\ TrySucceeds(outcomes[j]) =>
         /\ ~BearsFailureMarkers(newInvoices[j])
         /\ Content(newInvoices[j])
              = Normalize(kind, "", runFiles[j].name,
                          ExtractData(outcomes[j]).data)

C2_FailureStep ==
  (/\ Len(outcomes') = Len(outcomes) + 1
   /\ StageFailed(outcomes'[Len(outcomes')]))
  =>
  (/\ errorMsg' = errorMsg
   /\ Len(newInvoices') = Len(newInvoices) + 1
   /\ SubSeq(newInvoices', 1, Len(newInvoices)) = newInvoices
   /\ BearsFailureMarkers(newInvoices'[Len(newInvoices')])
   /\ IF i < Len(runFiles)
      THEN pc' = "reading" /\ i' = i + 1 /\ status' = "processing"
      ELSE pc' = "idle" /\ status' = "success")

\* C2: per-file failure isolation: when the read, the model call or the
\* parse of file i fails, the step appends a marked record for file i,
\* leaves the earlier records as they are, reports nothing to the caller
\* (errorMsg unchanged, status never 'error') and goes on with file i+1 or
\* completes; and every record of a file that did not fail is unmarked and
\* is the normalization of that file's own data, whatever happened to the
\* other files.
C2_FailureIsolation == [](C2_Isolated) /\ [][C2_FailureStep]_vars

C2_Witness ==
  /\ RunCompleted
  /\ Len(runFiles) = 3
  /\ Len(newInvoices) = 3
  /\ TrySucceeds(outcomes[1])
  /\ StageFailed(outcomes[2])
  /\ TrySucceeds(outcomes[3])
  /\ ~BearsFailureMarkers(newInvoices[1])
  /\ BearsFailureMarkers(newInvoices[2])
  /\ ~BearsFailureMarkers(newInvoices[3])

\* C3: the record of an invoice file whose pipeline failed is the failure
\* placeholder: the file's name, invoice_number "ERROR", supplier_name
\* "Extraction Failed", total_amount 0, tax_amount 0, currency "",
\* line_items [], invoice_date null, supplier_tax_id null.
C3_InvoicePlaceholder ==
  kind = "Invoice" =>
    \A j \in 1..Len(outcomes) :
      ~TrySucceeds(outcomes[j]) =>
        /\ j <= Len(newInvoices)
        /\ newInvoices[j].fileName = runFiles[j].name
        /\ newInvoices[j].invoice_number = Str("ERROR")
        /\ newInvoices[j].supplier_name = Str("Extraction Failed")
        /\ newInvoices[j].total_amount = Num(0)
        /\ newInvoices[j].tax_amount = Num(0)
        /\ newInvoices[j].currency = Str("")
        /\ newInvoices[j].line_items = Arr(<<>>)
        /\ newInvoices[j].invoice_date = Null
        /\ newInvoices[j].supplier_tax_id = Null

C3_Witness ==
  /\ kind = "Invoice"
  /\ Len(outcomes) = 1
  /\ Len(newInvoices) = 1
  /\ outcomes[1] = ReadThen([kind |-> "rejected"])
  /\ newInvoices[1].fileName = "scan1.pdf"
  /\ newInvoices[1].invoice_number = Str("ERROR")
  /\ newInvoices[1].currency = Str("")

\* The defaults the specification documents for each field.
DocumentedDefault(k, f) ==
  IF k = "Invoice"
  THEN CASE f = "supplier_name" -> Str("Unknown Supplier")
         [] f = "total_amount" -> Num(0)
         [] f = "currency" -> Str("USD")
         [] f = "tax_amount" -> Num(0)
         [] f = "line_items" -> Arr(<<>>)
         [] OTHER -> Null
  ELSE IF f = "full_name" THEN Str("Unknown") ELSE Null

Normalized == normOut # NotStarted /\ normOut # TypeError

\* C4 as stated: every field of the normalized record carries the raw
\* value when the parsed result has the field, and the documented default
\* when it has not.
C4_Original ==
  Normalized =>
    \A f \in DataFields(kind) :
      normOut[f] = IF Get(normIn, f) # Undefined THEN Get(normIn, f)
                   ELSE DocumentedDefault(kind, f)

\* C4 (amended): every field of the normalized record carries the raw
\* value when the parsed result has a value other than null for the field,
\* and the documented default when the field is absent or null.
C4_NormalizationDefaults ==
  Normalized =>
    /\ DOMAIN normOut = DataFields(kind) \cup {"id", "fileName"}
    /\ \A f \in DataFields(kind) :
         normOut[f] = IF Get(normIn, f) \notin {Undefined, Null}
                      THEN Get(normIn, f)
                      ELSE DocumentedDefault(kind, f)

C4_Witness ==
  /\ kind = "Invoice"
  /\ normIn = Obj([supplier_name |-> Str("Acme Co"),
                   total_amount |-> Num(1505)])
  /\ Normalized
  /\ normOut.supplier_name = Str("Acme Co")
  /\ normOut.total_amount = Num(1505)
  /\ normOut.currency = Str("USD")
  /\ normOut.tax_amount = Num(0)
  /\ normOut.line_items = Arr(<<>>)
  /\ normOut.invoice_number = Null

SuppliesEveryField == \A f \in DataFields(kind) : Get(normIn, f) # Undefined

\* C5 as stated: when the parsed result supplies every field, every data
\* field of the record equals the supplied value.
C5_Original ==
  (Normalized /\ SuppliesEveryField) =>
    \A f \in DataFields(kind) : normOut[f] = Get(normIn, f)

\* C5 (amended): when the parsed result supplies every field and supplies
\* no null for a field whose default is not null, every data field of the
\* record equals the supplied value.
C5_CompleteInputUnchanged ==
  (/\ Normalized
   /\ SuppliesEveryField
   /\ \A f \in DataFields(kind) :
        Get(normIn, f) = Null => DocumentedDefault(kind, f) = Null)
  => \A f \in DataFields(kind) : normOut[f] = Get(normIn, f)

C5_Witness ==
  /\ kind = "Invoice"
  /\ Normalized
  /\ SuppliesEveryField
  /\ normIn.m.currency = Str("EUR")
  /\ normIn.m.tax_amount = Num(0)
  /\ normIn.m.invoice_date = Null
  /\ normIn.m.line_items = Arr(<<>>)
  /\ \A f \in DataFields(kind) : normOut[f] = normIn.m[f]

\* C6 as stated: every record of a run has a non-empty id and the ids of
\* the run's records are pairwise distinct.
C6_UniqueIds ==
  /\ \A j \in 1..Len(newInvoices) : newInvoices[j].id # ""
  /\ \A j, k \in 1..Len(newInvoices) :
       j # k => newInvoices[j].id # newInvoices[k].id

ParsesSuccessfully(out) ==
  /\ out.read = "load"
  /\ out.response.kind = "text"
  /\ JSONParse(out.response.text) # SyntaxError

\* C7 as stated: the record of a file whose response text parsed is the
\* normalized record with the defaults filled in, never the placeholder.
C7_NormalizationNeverFails ==
  \A j \in 1..Len(outcomes) :
    ParsesSuccessfully(outcomes[j]) =>
      /\ j <= Len(newInvoices)
      /\ ~BearsFailureMarkers(newInvoices[j])
      /\ Content(newInvoices[j])
           = Normalize(kind, "", runFiles[j].name,
                       JSONParse(outcomes[j].response.text))

C8_PreflightStep ==
  (/\ pc = "idle"
   /\ Len(files) = 0
   /\ Len(files') = 0)
  =>
  (/\ errorMsg' = Str(EmptyQueueMessage(kind))
   /\ UNCHANGED <<status, invoices, reads, calls, pc, runFiles, newInvoices,
                  outcomes, inflight>>)

\* C8: a processFiles call on an empty queue sets the error message and
\* nothing else: no read and no model call is started, status does not
\* become 'processing' and the published collection is unchanged.
C8_EmptyQueueError == [][C8_PreflightStep]_vars

C8_Witness ==
  /\ Len(files) = 0
  /\ errorMsg = Str(EmptyQueueMessage(kind))
  /\ status = "idle"
  /\ invoices = <<>>
  /\ reads = 0
  /\ calls = 0

\* C9: at most one file is in flight, it is the file after the last
\* appended record, and its read begins only when the records and outcomes
\* of all earlier files are in place.
C9_Sequential ==
  /\ Cardinality(inflight) <= 1
  /\ pc \in {"reading", "calling"} =>
       /\ inflight = {i}
       /\ Len(newInvoices) = i - 1
       /\ Len(outcomes) = i - 1
       /\ reads = i
  /\ pc = "idle" => inflight = {}
  /\ calls <= reads

C9_Witness ==
  /\ pc = "reading"
  /\ i = 2
  /\ inflight = {2}
  /\ Len(newInvoices) = 1
  /\ reads = 2

\* C10: the record of a business card file whose pipeline failed has the
\* file's name, full_name "Extraction Failed", every other data field
\* null, and the fields of a successful business card record.
C10_CardPlaceholder ==
  kind = "BusinessCard" =>
    \A j \in 1..Len(outcomes) :
      ~TrySucceeds(outcomes[j]) =>
        /\ j <= Len(newInvoices)
        /\ newInvoices[j].fileName = runFiles[j].name
        /\ newInvoices[j].full_name = Str("Extraction Failed")
        /\ \A f \in CardFields \ {"full_name"} : newInvoices[j][f] = Null
        /\ DOMAIN newInvoices[j] = DOMAIN CardRecord("", "", Obj(<<>>))

C10_Witness ==
  /\ kind = "BusinessCard"
  /\ Len(outcomes) = 1
  /\ Len(newInvoices) = 1
  /\ outcomes[1] = ReadFailed
  /\ newInvoices[1].fileName = "scan1.pdf"
  /\ newInvoices[1].full_name = Str("Extraction Failed")
  /\ newInvoices[1].company = Null

\* The files among the first n finished ones that satisfy P.
Finished(P(_)) == {j \in 1..Len(outcomes) : P(outcomes[j])}

WasRead(out) == out.read = "load"
HasText(out) == WasRead(out) /\ out.response \in {[kind |-> "text", text |-> t] : t \in Texts(kind)}

C11_Counts ==
  /\ calls = Cardinality(Finished(WasRead))
             + (IF pc = "calling" THEN 1 ELSE 0)
  /\ parses = Cardinality(Finished(HasText))
  /\ \A j \in 1..Len(outcomes) :
       (~WasRead(outcomes[j]) \/ outcomes[j].response.kind = "notext") =>
         j <= Len(newInvoices) /\ BearsFailureMarkers(newInvoices[j])

C11_CallStep ==
  calls' # calls =>
    \/ calls' = 0 /\ pc = "idle"
    \/ /\ calls' = calls + 1
       /\ pc = "reading"
       /\ pc' = "calling"
       /\ i' = i
       /\ calls = Len(outcomes) - Cardinality(Finished(LAMBDA o : ~WasRead(o)))

\* C11: the model is called once for each file that was read and never
\* for a file whose read failed, with no second call after a failure: the
\* calls of a run number the finished files that were read, plus the one
\* in flight, and each call is made on the step that ends the read of the
\* current file; a file whose read failed, or whose response has no text,
\* gets the placeholder, and JSON.parse runs only on responses with text.
C11_OneCallPerFile == [](C11_Counts) /\ [][C11_CallStep]_vars

C11_Witness ==
  /\ RunCompleted
  /\ Len(outcomes) = 3
  /\ outcomes[1] = ReadFailed
  /\ outcomes[2] = ReadThen([kind |-> "notext"])
  /\ outcomes[3] = ReadThen([kind |-> "rejected"])
  /\ calls = 2
  /\ parses = 0
  /\ \A j \in 1..3 : BearsFailureMarkers(newInvoices[j])

C12_Completed ==
  /\ status = "success"
  /\ pc = "idle"
  /\ files = <<>>
  /\ Len(newInvoices) = Len(runFiles)
  /\ Len(invoices) >= Len(runFiles)
  /\ \A j \in 1..Len(runFiles) :
       invoices[Len(invoices) - Len(runFiles) + j].fileName = runFiles[j].name

\* C12: when every read and every model call settles, a started batch
\* leaves 'processing' and reaches 'success' with the queue emptied and one
\* record published per file; status is never 'error'.
C12_BatchCompletes ==
  /\ (status = "processing") ~> C12_Completed
  /\ [](status # "error")

C12_Witness ==
  /\ C12_Completed
  /\ Len(runFiles) = 2
  /\ \A j \in 1..2 : ~TrySucceeds(outcomes[j])
  /\ Len(invoices) = 2

C13_PublishStep ==
  /\ status' = "processing" => invoices' = invoices
  /\ invoices' # invoices =>
       /\ status = "processing"
       /\ status' = "success"
       /\ pc' = "idle"
       /\ Len(newInvoices') = Len(runFiles)
       /\ invoices' = invoices \o newInvoices'
  /\ Len(invoices') >= Len(invoices)
  /\ SubSeq(invoices', 1, Len(invoices)) = invoices

\* C13: the published collection changes only on the step that completes
\* a run; that step appends all records of the run after the records
\* already published, which keep their content and order; no step that
\* leaves the run processing changes the collection.
C13_PublishOnlyAppends == [][C13_PublishStep]_vars

C13_Witness ==
  /\ RunCompleted
  /\ Len(runFiles) = 2
  /\ Len(invoices) = 3
  /\ SubSeq(invoices, 2, 3) = newInvoices
  /\ invoices[1].fileName = "card.png"

C14_Frozen ==
  /\ status = "processing" <=> pc # "idle"
  /\ status = "processing" => files = runFiles /\ Len(files) > 0

C14_FrozenStep ==
  /\ status = "processing" =>
       /\ runFiles' = runFiles
       /\ files' = files \/ (files' = <<>> /\ status' = "success")
  /\ (status = "processing" /\ status' # "processing") =>
       /\ files = runFiles
       /\ files' = <<>>
       /\ Len(newInvoices') = Len(files)
       /\ \A j \in 1..Len(files) : newInvoices'[j].fileName = files[j].name
  /\ runFiles' # runFiles => status # "processing" /\ runFiles' = files

\* C14: one run at a time on a frozen queue: status is 'processing'
\* exactly while a run is suspended, no step taken while processing starts
\* a run or replaces the queue, and the queue the completion step clears is
\* the queue the run processed, each of its files having its record.
C14_SingleRunFrozenQueue == [](C14_Frozen) /\ [][C14_FrozenStep]_vars

C14_Witness ==
  /\ status = "processing"
  /\ pc = "calling"
  /\ i = 3
  /\ files = runFiles
  /\ Len(files) = 3
  /\ Len(newInvoices) = 2

====
